---- MODULE Spec2Model ----
(***************************************************************************)
(* Model of via-core: the parse-tree-to-AST builders of parser.rs, the     *)
(* command pipeline of main.rs (run_gen, run_check, collect_via_files) and *)
(* the file-system writer of writer.rs.                                    *)
(*                                                                         *)
(* Text is kept as a sequence of tokens: the identifier `title` is         *)
(* <<"title">> and the span `title?` is <<"title", "?">>, so that          *)
(* Pair::as_str of a composite node differs from that of its identifier.   *)
(***************************************************************************)
EXTENDS Naturals, Sequences, FiniteSets, TLC

VARIABLES
    unit,        \* parser harness: the (path, content) handed to parse_file
    parsed,      \* parser harness: Result of parse_file, or Pending
    generated,   \* parser harness: Result of codegen::generate, or Pending
    args,        \* CLI: [command, dry_run, ir]
    app,         \* CLI: the --app directory: [exists, entries]
    pc,          \* CLI: position inside run_gen / run_check
    files,       \* CLI: the sorted Vec<PathBuf> of collect_via_files
    idx,         \* CLI: index of the next file of the parse loop
    resources,   \* CLI: the aggregate Vec<Resource> of run_gen
    total,       \* CLI: the resource counter of run_check
    generation,  \* CLI: generation.files of run_gen
    fs,          \* output tree: [dirs, files], paths relative to --out
    stdout,      \* CLI: lines printed
    exit,        \* CLI: Pending, or the Result main returns
    log          \* observation: file-system and parser calls made by the run

vars == <<unit, parsed, generated, args, app, pc, files, idx, resources,
          total, generation, fs, stdout, exit, log>>

(***************************************************************************)
(* Bounds                                                                  *)
(***************************************************************************)
MaxFields == 2
MaxItems == 2
MaxEntries == 2
MaxFiles == 2

(***************************************************************************)
(* Result, Option, anyhow errors                                           *)
(***************************************************************************)
NoPath == <<>>

None == [some |-> FALSE]

Some(v) == [some |-> TRUE, v |-> v]

Ok(v) == [ok |-> TRUE, val |-> v]

\* anyhow!(text, rule): a message built from a literal and a {:?} rule name.
Err(text, rule) == [ok |-> FALSE, err |-> [text |-> text, rule |-> rule, path |-> NoPath]]

\* A message whose format arguments include a path.
ErrAt(text, path) == [ok |-> FALSE, err |-> [text |-> text, rule |-> "", path |-> path]]

Pending == [ok |-> FALSE, pending |-> TRUE]

IsPending(r) == "pending" \in DOMAIN r

(***************************************************************************)
(* pest pairs: a node has a rule tag, its text span and its inner pairs.   *)
(***************************************************************************)
Pair(rule, str, inner) == [rule |-> rule, str |-> str, inner |-> inner]

RECURSIVE ConcatStr(_)
ConcatStr(pairs) ==
    IF pairs = <<>> THEN <<>> ELSE Head(pairs).str \o ConcatStr(Tail(pairs))

\* A composite node: its span covers the spans of its inner pairs.
Node(rule, inner) == Pair(rule, ConcatStr(inner), inner)

(***************************************************************************)
(* parser.rs: the AST builders                                             *)
(***************************************************************************)
\* The `?` operator: an Err returns at once, an Ok value goes on into K.
Try(r, K(_)) == IF r.ok THEN K(r.val) ELSE r

parse_bool(pair) ==
    CASE pair.str = <<"true">> -> Ok(TRUE)
      [] pair.str = <<"false">> -> Ok(FALSE)
      [] OTHER -> Err("Unexpected bool literal: {other}", "")

\* `inner.next().map(|mark| mark.as_rule() == Rule::optional_mark).unwrap_or(false)`
\* on the pair after the identifier
MarkAfterIdent(inner) ==
    IF Len(inner) >= 2 THEN inner[2].rule = "optional_mark" ELSE FALSE

parse_name_opt(pair) ==
    IF Len(pair.inner) = 0
    THEN Ok([name |-> pair.str, optional |-> FALSE])
    ELSE Ok([name |-> pair.inner[1].str, optional |-> MarkAfterIdent(pair.inner)])

parse_type(pair) ==
    IF Len(pair.inner) = 0
    THEN Err("Type missing identifier", "")
    ELSE Ok([name |-> pair.inner[1].str, optional |-> MarkAfterIdent(pair.inner)])

FieldAttributes_default == [serialize |-> None]

RECURSIVE parse_field_attr(_, _)
RECURSIVE parse_field_attr_each(_, _)

\* `for p in pairs { parse_field_attr(p, attrs)?; }` over a &mut FieldAttributes
parse_field_attr_each(pairs, attrs) ==
    IF pairs = <<>>
    THEN Ok(attrs)
    ELSE Try(parse_field_attr(Head(pairs), attrs),
             LAMBDA a : parse_field_attr_each(Tail(pairs), a))

parse_field_attr(pair, attrs) ==
    CASE pair.rule = "field_attr" -> parse_field_attr_each(pair.inner, attrs)
      [] pair.rule = "serialize_attr" ->
            IF Len(pair.inner) = 0
            THEN Err("serialize attribute missing value", "")
            ELSE Try(parse_bool(pair.inner[1]),
                     LAMBDA b : Ok([attrs EXCEPT !.serialize = Some(b)]))
      [] OTHER -> Err("Unsupported field attribute variant: {:?}", pair.rule)

\* A field whose optional flag forgets the type-level marker.
Field_NameMarkOnly(name, opt_flag, ty, attributes) ==
    [name |-> name, optional |-> opt_flag, ty |-> ty, attributes |-> attributes]

\* Field { name, optional: opt_flag || ty.optional, ty, attributes }
Field(name, opt_flag, ty, attributes) ==
    [name |-> name, optional |-> (opt_flag \/ ty.optional), ty |-> ty,
     attributes |-> attributes]

\* The parts of parse_field after the name and the type.
parse_field_rest(pair, n, ty) ==
    Try(parse_field_attr_each(SubSeq(pair.inner, 3, Len(pair.inner)),
                              FieldAttributes_default),
        LAMBDA a : Ok(Field(n.name, n.optional, ty, a)))

parse_field(pair) ==
    IF Len(pair.inner) = 0
    THEN Err("Field missing name", "")
    ELSE Try(parse_name_opt(pair.inner[1]),
             LAMBDA n :
                IF Len(pair.inner) < 2
                THEN Err("Field missing type", "")
                ELSE Try(parse_type(pair.inner[2]),
                         LAMBDA ty : parse_field_rest(pair, n, ty)))

RECURSIVE parse_model_each(_, _)
\* `for item in pair.into_inner()` of parse_model, pushing onto `fields`
parse_model_each(items, fields) ==
    IF items = <<>>
    THEN Ok([fields |-> fields])
    ELSE IF Head(items).rule = "field_decl"
         THEN Try(parse_field(Head(items)),
                  LAMBDA f : parse_model_each(Tail(items), Append(fields, f)))
         ELSE Err("Unsupported model item: {:?}", Head(items).rule)

parse_model(pair) == parse_model_each(pair.inner, <<>>)

parse_param_entry(pair) ==
    Try(parse_name_opt(pair), LAMBDA n : Ok([name |-> n.name, optional |-> n.optional]))

RECURSIVE parse_param_entry_each(_, _)
\* `for entry_pair in list_pair.into_inner()` of parse_params_profile
parse_param_entry_each(pairs, entries) ==
    IF pairs = <<>>
    THEN Ok(entries)
    ELSE Try(parse_param_entry(Head(pairs)),
             LAMBDA e : parse_param_entry_each(Tail(pairs), Append(entries, e)))

ParamsKind_of(str) ==
    IF str = <<"editable">>
    THEN [tag |-> "Editable"]
    ELSE [tag |-> "Named", v |-> str]

\* The `if let Some(list_pair) = inner.next()` of parse_params_profile with a
\* bare entry dropped instead of pushed.
profile_entries_DropBare(inner) ==
    IF Len(inner) >= 2
    THEN CASE inner[2].rule = "param_entry_list" ->
                 parse_param_entry_each(inner[2].inner, <<>>)
           [] OTHER -> Ok(<<>>)
    ELSE Ok(<<>>)

\* The `if let Some(list_pair) = inner.next()` of parse_params_profile.
profile_entries(inner) ==
    IF Len(inner) >= 2
    THEN CASE inner[2].rule = "param_entry_list" ->
                 parse_param_entry_each(inner[2].inner, <<>>)
           [] inner[2].rule = "param_entry" ->
                 parse_param_entry_each(<<inner[2]>>, <<>>)
           [] OTHER -> Ok(<<>>)
    ELSE Ok(<<>>)

parse_params_profile(pair) ==
    IF Len(pair.inner) = 0
    THEN Err("Params profile missing name", "")
    ELSE Try(profile_entries(pair.inner),
             LAMBDA entries : Ok([name |-> ParamsKind_of(pair.inner[1].str),
                                  entries |-> entries]))

RECURSIVE parse_params_section_each(_, _)
\* `for profile_pair in pair.into_inner()` of parse_params_section
parse_params_section_each(pairs, profiles) ==
    IF pairs = <<>>
    THEN Ok(profiles)
    ELSE IF Head(pairs).rule = "params_profile"
         THEN Try(parse_params_profile(Head(pairs)),
                  LAMBDA p : parse_params_section_each(Tail(pairs), Append(profiles, p)))
         ELSE Err("Unsupported params profile: {:?}", Head(pairs).rule)

parse_params_section(pair) == parse_params_section_each(pair.inner, <<>>)

\* `for format_pair in list_pair.into_inner()` of parse_respond_with
format_each(pairs) == [i \in 1..Len(pairs) |-> pairs[i].str]

parse_respond_with(pair) ==
    IF Len(pair.inner) >= 1
    THEN CASE pair.inner[1].rule = "format_list" -> Ok(format_each(pair.inner[1].inner))
           [] pair.inner[1].rule = "ident" -> Ok(<<pair.inner[1].str>>)
           [] OTHER -> Ok(<<>>)
    ELSE Ok(<<>>)

AutoCrud == [tag |-> "AutoCrud"]

Manual(list) == [tag |-> "Manual", list |-> list]

\* A Controller::default() whose actions start out as an empty Manual list.
Controller_default_Manual == [params |-> <<>>, respond_with |-> <<>>, actions |-> Manual(<<>>)]

Controller_default == [params |-> <<>>, respond_with |-> <<>>, actions |-> AutoCrud]

RECURSIVE parse_controller_each(_, _)
\* `for item in pair.into_inner()` of parse_controller, over `controller`
parse_controller_each(items, controller) ==
    IF items = <<>>
    THEN Ok(controller)
    ELSE CASE Head(items).rule = "params_section" ->
                Try(parse_params_section(Head(items)),
                    LAMBDA p : parse_controller_each(Tail(items),
                                                     [controller EXCEPT !.params = p]))
           [] Head(items).rule = "respond_with_section" ->
                Try(parse_respond_with(Head(items)),
                    LAMBDA f : parse_controller_each(Tail(items),
                                                     [controller EXCEPT !.respond_with = f]))
           [] Head(items).rule = "actions_section" ->
                parse_controller_each(Tail(items),
                                      [controller EXCEPT !.actions = AutoCrud])
           [] OTHER -> Err("Unsupported controller item: {:?}", Head(items).rule)

parse_controller(pair) == parse_controller_each(pair.inner, Controller_default)

RECURSIVE parse_resource_each_FirstWins(_, _, _)
\* A resource body walk that keeps the first section of each kind.
parse_resource_each_FirstWins(items, model, controller) ==
    IF items = <<>>
    THEN Ok([model |-> model, controller |-> controller])
    ELSE CASE Head(items).rule = "model_section" ->
                Try(parse_model(Head(items)),
                    LAMBDA m : parse_resource_each_FirstWins(
                                   Tail(items),
                                   IF model.some THEN model ELSE Some(m),
                                   controller))
           [] Head(items).rule = "controller_section" ->
                Try(parse_controller(Head(items)),
                    LAMBDA c : parse_resource_each_FirstWins(
                                   Tail(items),
                                   model,
                                   IF controller.some THEN controller ELSE Some(c)))
           [] OTHER -> Err("Unsupported resource item: {:?}", Head(items).rule)

RECURSIVE parse_resource_each(_, _, _)
\* `for item in inner` of parse_resource, over `model` and `controller`
parse_resource_each(items, model, controller) ==
    IF items = <<>>
    THEN Ok([model |-> model, controller |-> controller])
    ELSE CASE Head(items).rule = "model_section" ->
                Try(parse_model(Head(items)),
                    LAMBDA m : parse_resource_each(Tail(items), Some(m), controller))
           [] Head(items).rule = "controller_section" ->
                Try(parse_controller(Head(items)),
                    LAMBDA c : parse_resource_each(Tail(items), model, Some(c)))
           [] OTHER -> Err("Unsupported resource item: {:?}", Head(items).rule)

parse_resource(pair, path) ==
    IF Len(pair.inner) = 0
    THEN Err("Resource missing identifier", "")
    ELSE Try(parse_resource_each(Tail(pair.inner), None, None),
             LAMBDA body : Ok([name |-> pair.inner[1].str,
                               model |-> body.model,
                               controller |-> body.controller,
                               file_path |-> path]))

RECURSIVE parse_str_each(_, _, _)
\* `for pair in file_pair.into_inner()` of parse_str, pushing onto `resources`
parse_str_each(pairs, path, acc) ==
    IF pairs = <<>>
    THEN Ok(acc)
    ELSE CASE Head(pairs).rule = "resource" ->
                Try(parse_resource(Head(pairs), path),
                    LAMBDA r : parse_str_each(Tail(pairs), path, Append(acc, r)))
           [] Head(pairs).rule = "EOI" -> parse_str_each(Tail(pairs), path, acc)
           [] OTHER -> Err("Unexpected rule inside file: {:?}", Head(pairs).rule)

(***************************************************************************)
(* The grammar (spec.md 4.1): what ViaParser::parse yields for a source.   *)
(* A source text is kept as its declarations: a file is a sequence of      *)
(* resources, a resource a name and its sections, and so on; a field       *)
(* records whether its separating colon is there.                          *)
(***************************************************************************)
IdentPair(name) == Pair("ident", <<name>>, <<>>)

MarkPair == Pair("optional_mark", <<"?">>, <<>>)

\* ident optional_mark?
NameInner(name, mark) ==
    IF mark THEN <<IdentPair(name), MarkPair>> ELSE <<IdentPair(name)>>

NameOptPair(n) == Node("name_opt", NameInner(n.name, n.mark))

\* param_entry := name_opt: the entry has the production of name_opt.
ParamEntryPair(n) == Node("param_entry", NameInner(n.name, n.mark))

BoolPair(b) == Pair("bool_literal", IF b THEN <<"true">> ELSE <<"false">>, <<>>)

FieldAttrPair(b) == Node("field_attr", <<Node("serialize_attr", <<BoolPair(b)>>)>>)

FieldPair(f) ==
    Node("field_decl",
         <<NameOptPair([name |-> f.name, mark |-> f.nmark]),
           Node("type_ref", NameInner(f.ty, f.tmark))>>
         \o [i \in 1..Len(f.attrs) |-> FieldAttrPair(f.attrs[i])])

ProfilePair(p) ==
    Node("params_profile",
         <<IdentPair(p.name)>>
         \o (CASE p.form = "list" ->
                    <<Node("param_entry_list",
                           [i \in 1..Len(p.entries) |-> ParamEntryPair(p.entries[i])])>>
               [] p.form = "bare" -> <<ParamEntryPair(p.entries[1])>>
               [] OTHER -> <<>>))

ControllerItemPair(it) ==
    CASE it.sec = "params" ->
            Node("params_section",
                 [i \in 1..Len(it.profiles) |-> ProfilePair(it.profiles[i])])
      [] it.sec = "respond_with" ->
            Node("respond_with_section",
                 IF it.form = "list"
                 THEN <<Node("format_list",
                             [i \in 1..Len(it.formats) |-> IdentPair(it.formats[i])])>>
                 ELSE <<IdentPair(it.formats[1])>>)
      [] OTHER -> Node("actions_section", <<>>)

SectionPair(sec) ==
    IF sec.sec = "model"
    THEN Node("model_section", [i \in 1..Len(sec.fields) |-> FieldPair(sec.fields[i])])
    ELSE Node("controller_section",
              [i \in 1..Len(sec.items) |-> ControllerItemPair(sec.items[i])])

ResourcePair(r) ==
    Node("resource",
         <<IdentPair(r.name)>> \o [i \in 1..Len(r.items) |-> SectionPair(r.items[i])])

FilePair(rs) ==
    Node("file", [i \in 1..Len(rs) |-> ResourcePair(rs[i])] \o <<Pair("EOI", <<>>, <<>>)>>)

\* The fields of a source in reading order.
FieldsOfSection(sec) == IF sec.sec = "model" THEN sec.fields ELSE <<>>

RECURSIVE FieldsOfSections(_)
FieldsOfSections(secs) ==
    IF secs = <<>> THEN <<>>
    ELSE FieldsOfSection(Head(secs)) \o FieldsOfSections(Tail(secs))

RECURSIVE FieldsOfFile(_)
FieldsOfFile(rs) ==
    IF rs = <<>> THEN <<>> ELSE FieldsOfSections(Head(rs).items) \o FieldsOfFile(Tail(rs))

\* Where the text first leaves the grammar: the first field lacking its colon.
FirstMismatch(rs) ==
    LET flds == FieldsOfFile(rs)
        bad == {i \in 1..Len(flds) : ~flds[i].colon}
    IN  IF bad = {} THEN 0 ELSE CHOOSE i \in bad : \A j \in bad : i <= j

\* ViaParser::parse(Rule::file, src): the pairs, or a located pest error.
\* A content of kind "pairs" stands for the pairs a grammar that has drifted
\* from the builders would yield.
ViaParser_parse(src) ==
    CASE src.kind = "pairs" -> Ok(src.pairs)
      [] FirstMismatch(src.resources) # 0 ->
            [ok |-> FALSE,
             err |-> [text |-> "expected ':'", rule |-> "", path |-> NoPath,
                      loc |-> FirstMismatch(src.resources)]]
      [] OTHER -> Ok(<<FilePair(src.resources)>>)

(***************************************************************************)
(* parser.rs: parse_str and parse_file                                     *)
(***************************************************************************)
\* pest's Error::with_path
with_path(e, path) == [e EXCEPT !.path = path]

\* The walk of parse_str over the pairs a successful parse returned.
parse_str_pairs(pairs, path) ==
    IF Len(pairs) >= 1
    THEN IF pairs[1].rule # "file"
         THEN Err("Expected file rule, found {:?}", pairs[1].rule)
         ELSE parse_str_each(pairs[1].inner, path, <<>>)
    ELSE Ok(<<>>)

\* The map_err of parse_str
map_err_with_path(r, path) ==
    IF r.ok THEN r ELSE [ok |-> FALSE, err |-> with_path(r.err, path)]

parse_str(src, path) ==
    Try(map_err_with_path(ViaParser_parse(src), path),
        LAMBDA pairs : parse_str_pairs(pairs, path))

parse_file(path, content) ==
    IF content.kind = "unreadable"
    THEN ErrAt("Failed to read Via file at {}", path)
    ELSE parse_str(content, path)

(***************************************************************************)
(* The code generator (spec.md 4.2): per resource a model artifact, a      *)
(* controller artifact and a client type artifact.                         *)
(***************************************************************************)
RsFileName == [Article |-> "article.rs", Comment |-> "comment.rs"]

TsFileName == [Article |-> "article.ts", Comment |-> "comment.ts"]

ModelFields(resource) == IF resource.model.some THEN resource.model.v.fields ELSE <<>>

\* serialize == Some(false) hides a field; None and Some(true) include it.
SerializeVisible(field) ==
    ~(field.attributes.serialize.some /\ field.attributes.serialize.v = FALSE)

RECURSIVE SelectVisible(_)
SelectVisible(fields) ==
    IF fields = <<>> THEN <<>>
    ELSE (IF SerializeVisible(Head(fields)) THEN <<Head(fields)>> ELSE <<>>)
         \o SelectVisible(Tail(fields))

\* A model artifact that marks no field as skipped.
render_model_NoSkip(resource) ==
    LET fields == ModelFields(resource) IN
    [kind |-> "model",
     fields |-> [i \in 1..Len(fields) |->
                    [name |-> fields[i].name,
                     ty |-> fields[i].ty.name,
                     optional |-> fields[i].optional,
                     skip_serializing |-> FALSE]]]

render_model(resource) ==
    LET fields == ModelFields(resource) IN
    [kind |-> "model",
     fields |-> [i \in 1..Len(fields) |->
                    [name |-> fields[i].name,
                     ty |-> fields[i].ty.name,
                     optional |-> fields[i].optional,
                     skip_serializing |-> ~SerializeVisible(fields[i])]]]

render_client_type(resource) ==
    LET fields == SelectVisible(ModelFields(resource)) IN
    [kind |-> "client_type",
     fields |-> [i \in 1..Len(fields) |->
                    [name |-> fields[i].name,
                     ty |-> fields[i].ty.name,
                     optional |-> fields[i].optional]]]

RECURSIVE EditableEntries(_)
EditableEntries(profiles) ==
    IF profiles = <<>> THEN <<>>
    ELSE (IF Head(profiles).name.tag = "Editable" THEN Head(profiles).entries ELSE <<>>)
         \o EditableEntries(Tail(profiles))

render_controller(resource) ==
    LET c == IF resource.controller.some THEN resource.controller.v ELSE Controller_default IN
    [kind |-> "controller",
     actions |-> IF c.actions.tag = "AutoCrud"
                 THEN <<"list", "show", "create", "update", "delete">>
                 ELSE [i \in 1..Len(c.actions.list) |-> c.actions.list[i].name],
     editable |-> EditableEntries(c.params),
     formats |-> IF c.respond_with = <<>> THEN <<<<"json">>>> ELSE c.respond_with]

GeneratedFile(relative_path, contents) ==
    [relative_path |-> relative_path, contents |-> contents]

generate_one(resource) ==
    <<GeneratedFile(<<"src", "models", RsFileName[resource.name[1]]>>, render_model(resource)),
      GeneratedFile(<<"src", "controllers", RsFileName[resource.name[1]]>>,
                    render_controller(resource)),
      GeneratedFile(<<"ts", "models", TsFileName[resource.name[1]]>>,
                    render_client_type(resource))>>

RECURSIVE generate(_)
generate(rs) ==
    IF rs = <<>> THEN <<>> ELSE generate_one(Head(rs)) \o generate(Tail(rs))

(***************************************************************************)
(* Sources the parser is run on                                            *)
(***************************************************************************)
FieldNames == <<"title", "body", "views", "slug">>

TypeNames == <<"String", "Text", "Int", "Bool">>

AttrLists == {<<>>, <<TRUE>>, <<FALSE>>, <<TRUE, FALSE>>, <<FALSE, TRUE>>}

\* The declarations a field in position i may be.
FieldSrcs(i) ==
    {[name |-> FieldNames[i], nmark |-> nm, ty |-> TypeNames[i], tmark |-> tm,
      attrs |-> at, colon |-> TRUE] : nm \in BOOLEAN, tm \in BOOLEAN, at \in AttrLists}

RECURSIVE FieldSeqsOfLen(_)
FieldSeqsOfLen(n) ==
    IF n = 0 THEN {<<>>}
    ELSE {Append(s, f) : s \in FieldSeqsOfLen(n - 1), f \in FieldSrcs(n)}

FieldSeqs == UNION {FieldSeqsOfLen(n) : n \in 0..MaxFields}

ModelSec(fields) == [sec |-> "model", fields |-> fields]

EntrySrcs == {[name |-> "title", mark |-> FALSE], [name |-> "body", mark |-> TRUE]}

FormatNames == {"json", "html"}

RECURSIVE SeqsOfLen(_, _)
SeqsOfLen(S, n) ==
    IF n = 0 THEN {<<>>} ELSE {Append(s, x) : s \in SeqsOfLen(S, n - 1), x \in S}

NonEmptySeqs(S, n) == UNION {SeqsOfLen(S, k) : k \in 1..n}

ProfileSrcs(name) ==
    {[name |-> name, form |-> "none", entries |-> <<>>]}
    \cup {[name |-> name, form |-> "bare", entries |-> <<e>>] : e \in EntrySrcs}
    \cup {[name |-> name, form |-> "list", entries |-> es] :
            es \in NonEmptySeqs(EntrySrcs, MaxEntries)}

ParamsSec(profiles) == [sec |-> "params", profiles |-> profiles]

ParamsSecs ==
    {ParamsSec(<<>>)}
    \cup {ParamsSec(<<p>>) : p \in ProfileSrcs("editable") \cup ProfileSrcs("admin")}
    \cup {ParamsSec(<<p, q>>) : p \in ProfileSrcs("editable"),
                                q \in {r \in ProfileSrcs("admin") : r.form # "list"}}

RespondSecs ==
    {[sec |-> "respond_with", form |-> "bare", formats |-> <<f>>] : f \in FormatNames}
    \cup {[sec |-> "respond_with", form |-> "list", formats |-> fl] :
            fl \in NonEmptySeqs(FormatNames, MaxEntries)}

ActionsSec == [sec |-> "actions"]

ControllerItems == ParamsSecs \cup RespondSecs \cup {ActionsSec}

\* Sections that may follow the first one of a controller.
LaterItems ==
    {ParamsSec(<<[name |-> "editable", form |-> "bare",
                  entries |-> <<[name |-> "slug", mark |-> FALSE]>>]>>),
     [sec |-> "respond_with", form |-> "bare", formats |-> <<"xml">>],
     [sec |-> "respond_with", form |-> "list", formats |-> <<"xml", "json">>],
     ActionsSec}

ControllerItemSeqs ==
    {<<>>}
    \cup {<<i>> : i \in ControllerItems}
    \cup (IF MaxItems >= 2
          THEN {<<i>> \o t : i \in ControllerItems,
                             t \in NonEmptySeqs(LaterItems, MaxItems - 1)}
          ELSE {})

ControllerSec(items) == [sec |-> "controller", items |-> items]

ResourceSrc(name, items) == [name |-> name, items |-> items]

SampleModel ==
    ModelSec(<<[name |-> "title", nmark |-> FALSE, ty |-> "String", tmark |-> FALSE,
                attrs |-> <<>>, colon |-> TRUE],
               [name |-> "body", nmark |-> FALSE, ty |-> "String", tmark |-> TRUE,
                attrs |-> <<>>, colon |-> TRUE],
               [name |-> "views", nmark |-> FALSE, ty |-> "Int", tmark |-> FALSE,
                attrs |-> <<FALSE>>, colon |-> TRUE]>>)

OtherModel ==
    ModelSec(<<[name |-> "slug", nmark |-> TRUE, ty |-> "String", tmark |-> FALSE,
                attrs |-> <<TRUE>>, colon |-> TRUE]>>)

SampleController ==
    ControllerSec(<<ParamsSec(<<[name |-> "editable", form |-> "list",
                                 entries |-> <<[name |-> "title", mark |-> FALSE],
                                               [name |-> "body", mark |-> TRUE]>>]>>),
                    [sec |-> "respond_with", form |-> "bare", formats |-> <<"json">>]>>)

OtherController == ControllerSec(<<ActionsSec>>)

\* The Article resource of tests/fixtures.
Article == ResourceSrc("Article", <<SampleModel, ControllerSec(<<>>)>>)

Comment == ResourceSrc("Comment", <<OtherModel, SampleController>>)

\* A model section with a field whose colon is missing at position k.
BrokenModel(k) ==
    ModelSec([i \in 1..Len(SampleModel.fields) |->
                 [SampleModel.fields[i] EXCEPT !.colon = (i # k)]])

ResourceSrcs ==
    {ResourceSrc("Article", <<ModelSec(f)>>) : f \in FieldSeqs}
    \cup {ResourceSrc("Article", <<ControllerSec(c)>>) : c \in ControllerItemSeqs}
    \cup {ResourceSrc("Comment", items) :
            items \in {<<>>} \cup NonEmptySeqs({SampleModel, OtherModel, SampleController,
                                               OtherController}, MaxItems)}

Unreadable == [kind |-> "unreadable"]

Text(rs) == [kind |-> "text", resources |-> rs]

ParseContents ==
    {Unreadable, Text(<<>>), Text(<<Article, Comment>>), Text(<<Comment, Article>>)}
    \cup {Text(<<r>>) : r \in ResourceSrcs}
    \cup {Text(<<Article, ResourceSrc("Comment", <<BrokenModel(k)>>)>>) : k \in 1..3}

AppPath == <<1>>

(***************************************************************************)
(* Parser harness: parse_file, then codegen::generate, on one unit         *)
(* (tests/codegen_snapshots.rs).                                           *)
(***************************************************************************)
PipelineIdle ==
    /\ args = [command |-> "none", dry_run |-> FALSE, ir |-> None]
    /\ app = [exists |-> FALSE, entries |-> {}, content |-> <<>>]
    /\ pc = "idle"
    /\ files = <<>>
    /\ idx = 0
    /\ resources = <<>>
    /\ total = 0
    /\ generation = <<>>
    /\ fs = [dirs |-> {}, files |-> {}]
    /\ stdout = <<>>
    /\ exit = Pending
    /\ log = <<>>

pipelineVars == <<args, app, pc, files, idx, resources, total, generation, fs,
                  stdout, exit, log>>

InitParse ==
    /\ unit \in {[path |-> AppPath \o <<p>>, content |-> c] : p \in {1}, c \in ParseContents}
    /\ parsed = Pending
    /\ generated = Pending
    /\ PipelineIdle

ParseOne ==
    /\ pc = "idle"
    /\ IsPending(parsed)
    /\ parsed' = parse_file(unit.path, unit.content)
    /\ UNCHANGED <<unit, generated, pipelineVars>>

GenerateOne ==
    /\ pc = "idle"
    /\ ~IsPending(parsed)
    /\ parsed.ok
    /\ IsPending(generated)
    /\ generated' = Ok(generate(parsed.val))
    /\ UNCHANGED <<unit, parsed, pipelineVars>>

NextParse == ParseOne \/ GenerateOne

SpecParse == InitParse /\ [][NextParse]_vars

(***************************************************************************)
(* Properties of the parser and the generator (SpecParse)                  *)
(***************************************************************************)
ParsedOk == ~IsPending(parsed) /\ parsed.ok

SrcResources == unit.content.resources

SectionsOf(r, kind) == {r.items[k] : k \in {j \in 1..Len(r.items) : r.items[j].sec = kind}}

\* The parsed field f is the declaration d: same name and type, its optional
\* flag the OR of the two markers, its type's flag the type-level marker.
FieldAgrees(f, d) ==
    /\ f.name = <<d.name>>
    /\ f.ty.name = <<d.ty>>
    /\ f.optional = (d.nmark \/ d.tmark)
    /\ f.ty.optional = d.tmark

FieldsAgree(fields, decls) ==
    /\ Len(fields) = Len(decls)
    /\ \A i \in 1..Len(decls) : FieldAgrees(fields[i], decls[i])

\* C3: every parsed field is optional exactly when its name-level marker or its
\* type-level marker is present (either alone suffices, neither gives a
\* non-optional field), and TypeRef.optional is the type-level marker alone.
C3_OptionalIsOrOfMarkers ==
    ParsedOk =>
        /\ Len(parsed.val) = Len(SrcResources)
        /\ \A r \in 1..Len(parsed.val) :
              parsed.val[r].model.some =>
                  \E m \in SectionsOf(SrcResources[r], "model") :
                      FieldsAgree(parsed.val[r].model.v.fields, m.fields)

\* C3 witness: one parsed model holds a field made optional by the type-level
\* marker alone and a field made optional by the name-level marker alone.
C3_Witness ==
    /\ ParsedOk
    /\ Len(SrcResources) = 1
    /\ Len(SrcResources[1].items) = 1
    /\ SrcResources[1].items[1].sec = "model"
    /\ LET d == SrcResources[1].items[1].fields
           f == parsed.val[1].model.v.fields
       IN  /\ Len(d) = 2
           /\ d[1].tmark /\ ~d[1].nmark /\ f[1].optional /\ f[1].ty.optional
           /\ d[2].nmark /\ ~d[2].tmark /\ f[2].optional /\ ~f[2].ty.optional

ModelArtifact(r) == generated.val[3 * (r - 1) + 1].contents

ClientArtifact(r) == generated.val[3 * (r - 1) + 3].contents

\* The (name, optional, serialize-visibility) triples of the two artifacts:
\* a field is visible in the model artifact unless it is marked skipped, and
\* the client type artifact lists the visible fields only.
ModelTriples(r) ==
    {<<f.name, f.optional, ~f.skip_serializing>> :
        f \in {ModelArtifact(r).fields[i] : i \in 1..Len(ModelArtifact(r).fields)}}

ClientTriples(r) ==
    {<<f.name, f.optional, TRUE>> :
        f \in {ClientArtifact(r).fields[i] : i \in 1..Len(ClientArtifact(r).fields)}}

GeneratedOk == ~IsPending(generated) /\ generated.ok

\* C5: for every resource the (name, optional, serialize-visibility) triples of
\* the model artifact match those of the client type artifact: the visible
\* triples are the client's triples, and a field hidden in the model artifact
\* has no triple in the client artifact.
C5_ArtifactsAgree ==
    GeneratedOk =>
        \A r \in 1..Len(parsed.val) :
            /\ {t \in ModelTriples(r) : t[3]} = ClientTriples(r)
            /\ \A t \in ModelTriples(r) :
                  ~t[3] => \A u \in ClientTriples(r) : u[1] # t[1]

\* C5 witness: a generated resource with a hidden field and an optional
\* visible field.
C5_Witness ==
    /\ GeneratedOk
    /\ \E r \in 1..Len(parsed.val) :
          /\ \E t \in ModelTriples(r) : ~t[3]
          /\ \E t \in ModelTriples(r) : t[3] /\ t[2]
          /\ ClientTriples(r) # {}

EntryOf(e) == [name |-> <<e.name>>, optional |-> e.mark]

ProfilesNormalized(params, ps) ==
    /\ Len(params) = Len(ps.profiles)
    /\ \A i \in 1..Len(params) :
          LET src == ps.profiles[i] IN
          /\ Len(params[i].entries) = Len(src.entries)
          /\ \A j \in 1..Len(src.entries) : params[i].entries[j] = EntryOf(src.entries[j])

FormatsNormalized(formats, rw) ==
    /\ Len(formats) = Len(rw.formats)
    /\ \A i \in 1..Len(formats) : formats[i] = <<rw.formats[i]>>

\* C6: a params profile yields its entries in order whether written as one
\* bare entry or as a bracketed list (so a bare entry and the one-element list
\* agree), and respond_with yields its formats in order in both forms.
C6_ShorthandNormalized ==
    ParsedOk =>
        \A r \in 1..Len(parsed.val) :
            parsed.val[r].controller.some =>
                \E c \in SectionsOf(SrcResources[r], "controller") :
                    /\ SectionsOf(c, "params") # {} =>
                          \E ps \in SectionsOf(c, "params") :
                              ProfilesNormalized(parsed.val[r].controller.v.params, ps)
                    /\ SectionsOf(c, "respond_with") # {} =>
                          \E rw \in SectionsOf(c, "respond_with") :
                              FormatsNormalized(parsed.val[r].controller.v.respond_with, rw)

\* C6 witness: a parsed controller with a bracketed two-entry profile, a
\* bare one-entry profile and a bracketed two-format respond_with.
C6_Witness ==
    /\ ParsedOk
    /\ Len(SrcResources) = 1
    /\ \E c \in SectionsOf(SrcResources[1], "controller") :
          /\ \E ps \in SectionsOf(c, "params") :
                /\ Len(ps.profiles) = 2
                /\ ps.profiles[1].form = "list" /\ Len(ps.profiles[1].entries) = 2
                /\ ps.profiles[2].form = "bare"
          /\ \E rw \in SectionsOf(c, "respond_with") : rw.form = "list"
    /\ LET ctl == parsed.val[1].controller.v
       IN  /\ Len(ctl.params) = 2
           /\ Len(ctl.params[1].entries) = 2
           /\ Len(ctl.params[2].entries) = 1
           /\ Len(ctl.respond_with) = 2

\* C7: a parsed controller has an empty profile list when it has no params
\* section, an empty format list when it has no respond_with section, and
\* AutoCrud actions with or without an actions section (never Manual).
C7_ControllerDefaults ==
    ParsedOk =>
        \A r \in 1..Len(parsed.val) :
            parsed.val[r].controller.some =>
                /\ parsed.val[r].controller.v.actions = AutoCrud
                /\ \E c \in SectionsOf(SrcResources[r], "controller") :
                      /\ SectionsOf(c, "params") = {} =>
                            parsed.val[r].controller.v.params = <<>>
                      /\ SectionsOf(c, "respond_with") = {} =>
                            parsed.val[r].controller.v.respond_with = <<>>

\* C7 witness: a parsed controller with no section at all.
C7_Witness ==
    /\ ParsedOk
    /\ Len(SrcResources) = 1
    /\ SrcResources[1].items = <<ControllerSec(<<>>)>>
    /\ parsed.val[1].controller = Some(Controller_default)

(***************************************************************************)
(* serde_json over ast.rs (#[derive(Serialize)]): the JSON value of the    *)
(* AST. Layout of the pretty-printed text is not kept.                     *)
(***************************************************************************)
JNull == [j |-> "null"]

JBool(b) == [j |-> "bool", b |-> b]

JStr(s) == [j |-> "string", s |-> s]

JArr(a) == [j |-> "array", a |-> a]

JObj(o) == [j |-> "object", o |-> o]

Json_Field(f) ==
    JObj([name |-> JStr(f.name),
          ty |-> JObj([name |-> JStr(f.ty.name), optional |-> JBool(f.ty.optional)]),
          optional |-> JBool(f.optional),
          attributes |-> JObj([serialize |-> IF f.attributes.serialize.some
                                             THEN JBool(f.attributes.serialize.v)
                                             ELSE JNull])])

Json_Model(m) == JObj([fields |-> JArr([i \in 1..Len(m.fields) |-> Json_Field(m.fields[i])])])

Json_ParamsKind(k) ==
    IF k.tag = "Editable" THEN JStr(<<"Editable">>) ELSE JObj([Named |-> JStr(k.v)])

Json_ParamsProfile(p) ==
    JObj([name |-> Json_ParamsKind(p.name),
          entries |-> JArr([i \in 1..Len(p.entries) |->
                              JObj([name |-> JStr(p.entries[i].name),
                                    optional |-> JBool(p.entries[i].optional)])])])

Json_ControllerActions(a) ==
    IF a.tag = "AutoCrud"
    THEN JStr(<<"AutoCrud">>)
    ELSE JObj([Manual |-> JArr([i \in 1..Len(a.list) |->
                                  JObj([name |-> JStr(a.list[i].name),
                                        body |-> IF a.list[i].body.some
                                                 THEN JStr(a.list[i].body.v)
                                                 ELSE JNull])])])

Json_Controller(c) ==
    JObj([params |-> JArr([i \in 1..Len(c.params) |-> Json_ParamsProfile(c.params[i])]),
          respond_with |-> JArr([i \in 1..Len(c.respond_with) |-> JStr(c.respond_with[i])]),
          actions |-> Json_ControllerActions(c.actions)])

Json_Resource(r) ==
    JObj([name |-> JStr(r.name),
          model |-> IF r.model.some THEN Json_Model(r.model.v) ELSE JNull,
          controller |-> IF r.controller.some THEN Json_Controller(r.controller.v) ELSE JNull,
          file_path |-> JStr(r.file_path)])

\* serde_json::to_string_pretty(&resources)
to_string_pretty(rs) == JArr([i \in 1..Len(rs) |-> Json_Resource(rs[i])])

(***************************************************************************)
(* main.rs: collect_via_files                                              *)
(***************************************************************************)
\* Ord of Path: component by component, a proper prefix first. A component
\* is a number that stands for a name; numbers order as the names do.
RECURSIVE PathLess(_, _)
PathLess(p, q) ==
    CASE q = <<>> -> FALSE
      [] p = <<>> -> TRUE
      [] p[1] # q[1] -> p[1] < q[1]
      [] OTHER -> PathLess(Tail(p), Tail(q))

RECURSIVE InsertPath(_, _)
InsertPath(sorted, p) ==
    IF sorted = <<>> THEN <<p>>
    ELSE IF PathLess(p, Head(sorted)) THEN <<p>> \o sorted
    ELSE <<Head(sorted)>> \o InsertPath(Tail(sorted), p)

RECURSIVE SortPaths(_)
\* files.sort()
SortPaths(ps) ==
    IF ps = <<>> THEN <<>> ELSE InsertPath(SortPaths(Tail(ps)), Head(ps))

RECURSIVE SelectViaFiles(_)
\* the filter of the walk loop: regular files whose extension is "via"
SelectViaFiles(walk) ==
    IF walk = <<>> THEN <<>>
    ELSE (IF Head(walk).is_file /\ Head(walk).ext = "via" THEN <<Head(walk).path>> ELSE <<>>)
         \o SelectViaFiles(Tail(walk))

\* A collect_via_files that returns the files in the order of the walk.
collect_via_files_Unsorted(walk) == SelectViaFiles(walk)

collect_via_files(walk) == SortPaths(SelectViaFiles(walk))

\* The orders in which WalkDir may yield a set of entries.
WalkOrders(entries) ==
    {w \in [1..Cardinality(entries) -> entries] :
        \A i, j \in 1..Cardinality(entries) : i # j => w[i] # w[j]}

(***************************************************************************)
(* writer.rs over the output tree. Paths are relative to --out; <<>> is    *)
(* the output root and <<"..">> the directory that holds it.               *)
(***************************************************************************)
IsPrefix(p, q) == Len(p) <= Len(q) /\ SubSeq(q, 1, Len(p)) = p

Parent(path) == SubSeq(path, 1, Len(path) - 1)

\* fs::create_dir_all
create_dir_all(tree, dir) ==
    [tree EXCEPT !.dirs = @ \cup {SubSeq(dir, 1, n) : n \in 0..Len(dir)}]

\* fs::write: creates the file or replaces its contents
fs_write(tree, path, contents) ==
    [tree EXCEPT !.files = {f \in @ : f.path # path}
                           \cup {[path |-> path, contents |-> contents]}]

\* fs::remove_dir_all
remove_dir_all(tree, dir) ==
    [dirs |-> {d \in tree.dirs : ~IsPrefix(dir, d)},
     files |-> {f \in tree.files : ~IsPrefix(dir, f.path)}]

\* The directory clean_output_root clears.
CleanedDir == <<"src">>

clean_output_root(tree) ==
    IF <<>> \in tree.dirs /\ CleanedDir \in tree.dirs
    THEN remove_dir_all(tree, CleanedDir)
    ELSE tree

RECURSIVE write_files(_, _)
\* write_files when every create_dir_all and write succeeds
write_files(tree, gfiles) ==
    IF gfiles = <<>> THEN tree
    ELSE write_files(fs_write(create_dir_all(tree, Parent(Head(gfiles).relative_path)),
                              Head(gfiles).relative_path, Head(gfiles).contents),
                     Tail(gfiles))

write_ir_file(tree, path, contents) ==
    fs_write(create_dir_all(tree, Parent(path)), path, contents)

DefaultIrPath == <<"via.ir.json">>

\* args.ir.unwrap_or_else(|| args.out.join("via.ir.json"))
IrPath == IF args.ir.some THEN args.ir.v ELSE DefaultIrPath

(***************************************************************************)
(* main.rs: run_gen and run_check                                          *)
(***************************************************************************)
HarnessIdle ==
    /\ unit = [path |-> NoPath, content |-> Unreadable]
    /\ parsed = Pending
    /\ generated = Pending

harnessVars == <<unit, parsed, generated>>

\* Candidate .via files under the --app directory.
ViaPaths == {AppPath \o <<2>>, AppPath \o <<1, 3>>, AppPath \o <<3>>, AppPath \o <<1, 1>>}

\* Entries of the walk that are not .via files: a text file and a directory
\* whose name ends in .via.
OtherEntries ==
    {[path |-> AppPath \o <<4>>, is_file |-> TRUE, ext |-> "txt"],
     [path |-> AppPath \o <<1>>, is_file |-> FALSE, ext |-> "via"]}

FileContents ==
    {Unreadable,
     Text(<<>>),
     Text(<<Article>>),
     Text(<<Comment, Article>>),
     Text(<<Article, ResourceSrc("Comment", <<BrokenModel(2)>>)>>)}

AppDir(S, c) ==
    [exists |-> TRUE,
     entries |-> OtherEntries \cup {[path |-> p, is_file |-> TRUE, ext |-> "via"] : p \in S},
     content |-> c]

AppDirs ==
    {[exists |-> FALSE, entries |-> {}, content |-> <<>>]}
    \cup UNION {{AppDir(S, c) : c \in [S -> FileContents]} :
                  S \in {T \in SUBSET ViaPaths : Cardinality(T) <= MaxFiles}}

CustomIrPath == <<"..", "via.ir.json">>

ArgSets ==
    {[command |-> "check", dry_run |-> FALSE, ir |-> None],
     [command |-> "gen", dry_run |-> TRUE, ir |-> None],
     [command |-> "gen", dry_run |-> FALSE, ir |-> None],
     [command |-> "gen", dry_run |-> FALSE, ir |-> Some(CustomIrPath)]}

Stale == [kind |-> "stale"]

StaleFile(path) == [path |-> path, contents |-> Stale]

\* Output trees an earlier run may have left.
PriorTrees ==
    {[dirs |-> {<<"..">>}, files |-> {}],
     [dirs |-> {<<"..">>, <<>>}, files |-> {}],
     [dirs |-> {<<"..">>, <<>>, <<"src">>, <<"src", "models">>},
      files |-> {StaleFile(<<"src", "models", "old.rs">>)}],
     [dirs |-> {<<"..">>, <<>>, <<"ts">>, <<"ts", "models">>},
      files |-> {StaleFile(<<"ts", "models", "old.ts">>), StaleFile(DefaultIrPath)}],
     [dirs |-> {<<"..">>, <<>>, <<"src">>, <<"src", "models">>, <<"src", "controllers">>,
                <<"ts">>, <<"ts", "models">>},
      files |-> {StaleFile(<<"src", "models", "old.rs">>),
                 StaleFile(<<"src", "controllers", "article.rs">>),
                 StaleFile(<<"ts", "models", "old.ts">>)}]}

Init ==
    /\ HarnessIdle
    /\ args \in ArgSets
    /\ app \in AppDirs
    /\ fs \in PriorTrees
    /\ pc = "start"
    /\ files = <<>>
    /\ idx = 0
    /\ resources = <<>>
    /\ total = 0
    /\ generation = <<>>
    /\ stdout = <<>>
    /\ exit = Pending
    /\ log = <<>>

Line(text, arg) == [text |-> text, arg |-> arg]

\* run_gen / run_check: collect_via_files(&args.app)? and the empty check
Collect ==
    /\ pc = "start"
    /\ IF ~app.exists
       THEN /\ exit' = ErrAt("Via directory not found: {}", AppPath)
            /\ pc' = "done"
            /\ UNCHANGED <<files, idx, stdout>>
       ELSE \E walk \in WalkOrders(app.entries) :
              \E walk_ok \in BOOLEAN :
                IF ~walk_ok
                THEN /\ exit' = Err("Failed to walk directory entry", "")
                     /\ pc' = "done"
                     /\ UNCHANGED <<files, idx, stdout>>
                ELSE /\ files' = collect_via_files(walk)
                     /\ IF files' = <<>>
                        THEN /\ stdout' = Append(stdout, Line("No .via files found under {}",
                                                              <<AppPath>>))
                             /\ exit' = Ok(<<>>)
                             /\ pc' = "done"
                             /\ idx' = idx
                        ELSE /\ pc' = "parse"
                             /\ idx' = 1
                             /\ UNCHANGED <<stdout, exit>>
    /\ UNCHANGED <<harnessVars, args, app, resources, total, generation, fs, log>>

ParseOp(path) == [op |-> "parse_file", file |-> path]

\* A parse loop that goes on to the next file when one fails to parse.
GenParse_SkipFailure ==
    /\ pc = "parse"
    /\ args.command = "gen"
    /\ LET r == parse_file(files[idx], app.content[files[idx]]) IN
       /\ log' = Append(log, ParseOp(files[idx]))
       /\ resources' = IF r.ok THEN resources \o r.val ELSE resources
       /\ idx' = idx + 1
       /\ pc' = IF idx = Len(files) THEN "parsed" ELSE "parse"
       /\ UNCHANGED exit
    /\ UNCHANGED <<harnessVars, args, app, files, total, generation, fs, stdout>>

\* run_gen: one turn of `for file in files`: parse_file(&file)?, then append
GenParse ==
    /\ pc = "parse"
    /\ args.command = "gen"
    /\ LET r == parse_file(files[idx], app.content[files[idx]]) IN
       /\ log' = Append(log, ParseOp(files[idx]))
       /\ IF r.ok
          THEN /\ resources' = resources \o r.val
               /\ idx' = idx + 1
               /\ pc' = IF idx = Len(files) THEN "parsed" ELSE "parse"
               /\ UNCHANGED exit
          ELSE /\ exit' = r
               /\ pc' = "done"
               /\ UNCHANGED <<resources, idx>>
    /\ UNCHANGED <<harnessVars, args, app, files, total, generation, fs, stdout>>

\* run_check: one turn of `for file in files`: parse_file(&file)?, then count
CheckParse ==
    /\ pc = "parse"
    /\ args.command = "check"
    /\ LET r == parse_file(files[idx], app.content[files[idx]]) IN
       /\ log' = Append(log, ParseOp(files[idx]))
       /\ IF r.ok
          THEN /\ total' = total + Len(r.val)
               /\ idx' = idx + 1
               /\ pc' = IF idx = Len(files) THEN "parsed" ELSE "parse"
               /\ UNCHANGED exit
          ELSE /\ exit' = r
               /\ pc' = "done"
               /\ UNCHANGED <<total, idx>>
    /\ UNCHANGED <<harnessVars, args, app, files, resources, generation, fs, stdout>>

\* run_check: the closing report
CheckReport ==
    /\ pc = "parsed"
    /\ args.command = "check"
    /\ stdout' = Append(stdout, Line("OK: parsed {} resource(s)", <<total>>))
    /\ exit' = Ok(<<>>)
    /\ pc' = "done"
    /\ UNCHANGED <<harnessVars, args, app, files, idx, resources, total, generation, fs, log>>

\* run_gen without the early return of a dry run.
GenReport_NoDryRunReturn ==
    /\ pc = "parsed"
    /\ args.command = "gen"
    /\ stdout' = Append(stdout, Line("Parsed {} resource(s)", <<Len(resources)>>))
    /\ pc' = "clean"
    /\ UNCHANGED exit
    /\ UNCHANGED <<harnessVars, args, app, files, idx, resources, total, generation, fs, log>>

\* run_gen: the count, and the listing and return of a dry run
GenReport ==
    /\ pc = "parsed"
    /\ args.command = "gen"
    /\ LET counted == Append(stdout, Line("Parsed {} resource(s)", <<Len(resources)>>)) IN
       IF args.dry_run
       THEN /\ stdout' = counted \o [i \in 1..Len(resources) |->
                                       Line(" - {} (from {})",
                                            <<resources[i].name, resources[i].file_path>>)]
            /\ exit' = Ok(<<>>)
            /\ pc' = "done"
       ELSE /\ stdout' = counted
            /\ pc' = "clean"
            /\ UNCHANGED exit
    /\ UNCHANGED <<harnessVars, args, app, files, idx, resources, total, generation, fs, log>>

\* run_gen: writer::clean_output_root(&args.out)?
Clean ==
    /\ pc = "clean"
    /\ IF <<>> \in fs.dirs /\ CleanedDir \in fs.dirs
       THEN \E ok \in BOOLEAN :
              IF ok
              THEN /\ fs' = clean_output_root(fs)
                   /\ log' = Append(log, [op |-> "remove_dir_all", out |-> CleanedDir])
                   /\ pc' = "generate"
                   /\ UNCHANGED exit
              ELSE \* remove_dir_all stopped part way: some files are left
                   \E kept \in SUBSET {f \in fs.files : IsPrefix(CleanedDir, f.path)} :
                      /\ fs' = [fs EXCEPT !.files =
                                   {f \in @ : ~IsPrefix(CleanedDir, f.path)} \cup kept]
                      /\ log' = Append(log, [op |-> "remove_dir_all", out |-> CleanedDir])
                      /\ exit' = ErrAt("Failed to clear generated directory {}", CleanedDir)
                      /\ pc' = "done"
       ELSE /\ fs' = clean_output_root(fs)
            /\ pc' = "generate"
            /\ UNCHANGED <<exit, log>>
    /\ UNCHANGED <<harnessVars, args, app, files, idx, resources, total, generation, stdout>>

\* run_gen: codegen::generate(&resources)?
Generate ==
    /\ pc = "generate"
    /\ \E ok \in BOOLEAN :
          IF ok
          THEN /\ generation' = generate(resources)
               /\ log' = Append(log, [op |-> "generate"])
               /\ pc' = "write"
               /\ UNCHANGED exit
          ELSE /\ exit' = Err("generate failed", "")
               /\ pc' = "done"
               /\ UNCHANGED <<generation, log>>
    /\ UNCHANGED <<harnessVars, args, app, files, idx, resources, total, fs, stdout>>

WriteOp(path) == [op |-> "write", out |-> path]

WriteOps(gfiles) == [i \in 1..Len(gfiles) |-> WriteOp(gfiles[i].relative_path)]

\* A write_files call whose error is dropped: the run goes on to the IR.
WriteFiles_IgnoreError ==
    /\ pc = "write"
    /\ \E k \in 0..Len(generation) :
          /\ fs' = write_files(fs, SubSeq(generation, 1, k))
          /\ log' = log \o WriteOps(SubSeq(generation, 1, k))
          /\ pc' = "ir"
          /\ UNCHANGED exit
    /\ UNCHANGED <<harnessVars, args, app, files, idx, resources, total, generation, stdout>>

\* run_gen: writer::write_files(&args.out, &generation.files)?; the first k
\* files are written and, when k is not the last, file k+1 fails either in
\* create_dir_all or in fs::write
WriteFiles ==
    /\ pc = "write"
    /\ \E k \in 0..Len(generation) :
          LET done == write_files(fs, SubSeq(generation, 1, k)) IN
          /\ log' = log \o WriteOps(SubSeq(generation, 1, k))
          /\ IF k = Len(generation)
             THEN /\ fs' = done
                  /\ pc' = "ir"
                  /\ UNCHANGED exit
             ELSE LET path == generation[k + 1].relative_path IN
                  \E in_write \in BOOLEAN :
                     /\ fs' = IF in_write THEN create_dir_all(done, Parent(path)) ELSE done
                     /\ exit' = IF in_write
                                THEN ErrAt("Failed to write {}", path)
                                ELSE ErrAt("Failed to create directory {}", Parent(path))
                     /\ pc' = "done"
    /\ UNCHANGED <<harnessVars, args, app, files, idx, resources, total, generation, stdout>>

IrFile(json) == [kind |-> "ir", json |-> json]

\* run_gen: the IR snapshot and the closing report
WriteIr ==
    /\ pc = "ir"
    /\ LET ir_json == to_string_pretty(resources) IN
       \E ok \in BOOLEAN :
          IF ok
          THEN /\ fs' = write_ir_file(fs, IrPath, IrFile(ir_json))
               /\ log' = Append(log, [op |-> "write_ir", out |-> IrPath])
               /\ stdout' = stdout \o <<Line("Wrote {} generated file(s) into {}",
                                             <<Len(generation)>>),
                                        Line("IR written to {}", <<IrPath>>)>>
               /\ exit' = Ok(<<>>)
               /\ pc' = "done"
          ELSE /\ exit' = ErrAt("Failed to write {}", IrPath)
               /\ pc' = "done"
               /\ UNCHANGED <<fs, log, stdout>>
    /\ UNCHANGED <<harnessVars, args, app, files, idx, resources, total, generation>>

Next ==
    \/ Collect
    \/ GenParse
    \/ CheckParse
    \/ CheckReport
    \/ GenReport
    \/ Clean
    \/ Generate
    \/ WriteFiles
    \/ WriteIr

Spec == Init /\ [][Next]_vars

(***************************************************************************)
(* Properties of the command pipeline (Spec)                               *)
(***************************************************************************)
Finished == pc = "done" /\ ~IsPending(exit)

ContentOf(i) == app.content[files[i]]

\* A file that cannot be parsed: unreadable, or a field lacks its colon.
SourceBad(c) ==
    \/ c.kind = "unreadable"
    \/ /\ c.kind = "text"
       /\ \E r \in 1..Len(c.resources) :
             \E m \in SectionsOf(c.resources[r], "model") :
                \E i \in 1..Len(m.fields) : ~m.fields[i].colon

BadFiles == {i \in 1..Len(files) : SourceBad(ContentOf(i))}

FirstBad == CHOOSE i \in BadFiles : \A j \in BadFiles : i <= j

\* C1: when some discovered file fails to parse, a gen or check run parses the
\* files in order up to the first such file and no further, ends in failure
\* there, and before that clears nothing, generates nothing and writes neither
\* a generated file nor the IR.
C1_AbortAtFirstParseFailure ==
    (files # <<>> /\ BadFiles # {}) =>
        /\ pc \in {"parse", "done"}
        /\ Len(log) <= FirstBad
        /\ \A k \in 1..Len(log) : log[k] = [op |-> "parse_file", file |-> files[k]]
        /\ generation = <<>>
        /\ fs \in PriorTrees
        /\ pc = "done" =>
              /\ ~IsPending(exit)
              /\ ~exit.ok
              /\ Len(log) = FirstBad

\* C1 witness: a gen run over two files has failed at the first one, the
\* second one unparsed, with the earlier output still in place.
C1_Witness ==
    /\ Finished
    /\ args.command = "gen"
    /\ ~args.dry_run
    /\ Len(files) = 2
    /\ BadFiles # {}
    /\ FirstBad = 1
    /\ Len(log) = 1
    /\ ~exit.ok
    /\ fs.files # {}

GeneratedDirs == {<<"src", "models">>, <<"src", "controllers">>, <<"ts", "models">>}

ArtifactsOnDisk == {f \in fs.files : \E d \in GeneratedDirs : IsPrefix(d, f.path)}

FullGenSucceeded ==
    /\ Finished
    /\ exit.ok
    /\ args.command = "gen"
    /\ ~args.dry_run
    /\ files # <<>>

\* C2: after a successful full gen run the files under src/models,
\* src/controllers and ts/models are exactly the generated ones, whatever the
\* output root held before.
C2_NoStaleArtifacts ==
    FullGenSucceeded =>
        /\ {f.path : f \in ArtifactsOnDisk}
             = {generation[i].relative_path : i \in 1..Len(generation)}
        /\ \A f \in ArtifactsOnDisk :
              \E i \in 1..Len(generation) :
                 /\ generation[i].relative_path = f.path
                 /\ generation[i].contents.kind = f.contents.kind

\* Lexicographic order of paths, component by component.
LexLess(p, q) ==
    \E k \in 1..(Len(q)) :
        /\ k <= Len(p) + 1
        /\ \A j \in 1..(k - 1) : p[j] = q[j]
        /\ (k = Len(p) + 1 \/ p[k] < q[k])

ViaFilesOf(dir) == {e.path : e \in {x \in dir.entries : x.is_file /\ x.ext = "via"}}

RECURSIVE DeclaredUpTo(_)
\* The resources declared in the first k files, file by file, in source order.
DeclaredUpTo(k) ==
    IF k = 0 THEN <<>>
    ELSE DeclaredUpTo(k - 1)
         \o [i \in 1..Len(ContentOf(k).resources) |->
               [file |-> files[k], decl |-> ContentOf(k).resources[i]]]

FieldNamesInOrder(fields, decls) ==
    /\ Len(fields) = Len(decls)
    /\ \A i \in 1..Len(decls) : fields[i].name = <<decls[i].name>>

ResourceIsDeclared(res, d) ==
    /\ res.name = <<d.decl.name>>
    /\ res.file_path = d.file
    /\ res.model.some =>
          \E m \in SectionsOf(d.decl, "model") :
             FieldNamesInOrder(res.model.v.fields, m.fields)

\* C4: the discovered .via files are parsed in lexicographic path order
\* whatever order the walk yields them in, the aggregate resource list is the
\* concatenation of the files' resources in that order, and every model keeps
\* its fields in declaration order.
C4_LexicographicOrder ==
    files # <<>> =>
        /\ {files[i] : i \in 1..Len(files)} = ViaFilesOf(app)
        /\ \A i, j \in 1..Len(files) : i < j => LexLess(files[i], files[j])
        /\ \A k \in 1..Len(log) :
              log[k].op = "parse_file" => (k <= Len(files) /\ log[k].file = files[k])
        /\ args.command = "gen" =>
              /\ Len(resources) = Len(DeclaredUpTo(idx - 1))
              /\ \A r \in 1..Len(resources) :
                    ResourceIsDeclared(resources[r], DeclaredUpTo(idx - 1)[r])

\* C4 witness: two files parsed, the aggregate holding the two resources of
\* the first file and then the resource of the second.
C4_Witness ==
    /\ pc = "parsed"
    /\ args.command = "gen"
    /\ Len(files) = 2
    /\ Len(log) = 2
    /\ Len(resources) = 3
    /\ resources[1].file_path = files[1]
    /\ resources[2].file_path = files[1]
    /\ resources[3].file_path = files[2]
    /\ Len(resources[2].model.v.fields) = 3

RECURSIVE ParsedUpTo(_)
\* What parsing yields for the first k files, concatenated.
ParsedUpTo(k) ==
    IF k = 0 THEN <<>>
    ELSE ParsedUpTo(k - 1) \o parse_file(files[k], ContentOf(k)).val

IrOnDisk == \E f \in fs.files : f.contents.kind = "ir"

IrOps == {i \in 1..Len(log) : log[i].op = "write_ir"}

\* C10: the IR snapshot is written only as the last step of a gen run whose
\* generation succeeded and whose generated files were all written, and holds
\* the serialization of the aggregate resource list as parsing produced it;
\* a run that fails in clearing, generating or writing files writes no IR.
C10_IrAfterGeneration ==
    (IrOnDisk \/ IrOps # {}) =>
        /\ FullGenSucceeded
        /\ IrOps = {Len(log)}
        /\ \E g \in 1..Len(log) :
              /\ log[g].op = "generate"
              /\ SubSeq(log, g + 1, Len(log) - 1)
                   = [i \in 1..Len(generation) |->
                        [op |-> "write", out |-> generation[i].relative_path]]
        /\ \A i \in 1..Len(generation) :
              \E f \in fs.files : f.path = generation[i].relative_path
        /\ resources = ParsedUpTo(Len(files))
        /\ [path |-> IrPath,
            contents |-> [kind |-> "ir", json |-> to_string_pretty(ParsedUpTo(Len(files)))]]
              \in fs.files

\* C10 witness: a finished gen run over two files with the IR on disk.
C10_Witness ==
    /\ FullGenSucceeded
    /\ IrOnDisk
    /\ Len(files) = 2
    /\ Len(resources) = 3
    /\ Len(generation) = 9

\* A run that must not write: `check`, or `gen --dry-run`.
NoWriteRun == args.command = "check" \/ args.dry_run

\* The lines a dry run prints once every file has parsed.
DryRunListing(rs) ==
    <<Line("Parsed {} resource(s)", <<Len(rs)>>)>>
    \o [i \in 1..Len(rs) |-> Line(" - {} (from {})", <<rs[i].name, rs[i].file_path>>)]

\* No step of a run that must not write touches the output tree, generates,
\* or performs an operation other than reading a source file.
FrameStep ==
    NoWriteRun =>
        /\ fs' = fs
        /\ generation' = generation
        /\ \A k \in (Len(log) + 1)..Len(log') : log'[k].op = "parse_file"

\* A dry run over files that all parse ends in success with the count and one
\* line per parsed resource on stdout.
DryRunSucceeds ==
    (/\ Finished
     /\ args.command = "gen"
     /\ args.dry_run
     /\ files # <<>>
     /\ BadFiles = {})
        => /\ exit.ok
           /\ resources = ParsedUpTo(Len(files))
           /\ stdout = DryRunListing(resources)

\* C11: a `gen --dry-run` run and a `check` run leave the file system as it
\* was for every input (nothing cleared, no directory created, no generated
\* file and no IR written), and a dry run whose files all parse succeeds after
\* listing each parsed resource.
C11_DryRunAndCheckLeaveFs == [][FrameStep]_vars /\ []DryRunSucceeds

\* C11 witness: a dry run over two files has listed its three resources and
\* succeeded while earlier output under src/ is still on disk.
C11_Witness ==
    /\ Finished
    /\ args.command = "gen"
    /\ args.dry_run
    /\ exit.ok
    /\ Len(files) = 2
    /\ Len(resources) = 3
    /\ Len(stdout) = 4
    /\ StaleFile(<<"src", "models", "old.rs">>) \in fs.files

HasSec(items, kind) == \E k \in 1..Len(items) : items[k].sec = kind

\* The last section of a kind among the items of a resource or controller.
LastSec(items, kind) ==
    LET at == {k \in 1..Len(items) : items[k].sec = kind}
    IN  items[CHOOSE k \in at : \A j \in at : j <= k]

\* The value the last @serialize attribute of a field gives, if any.
LastSerialize(attrs) == IF attrs = <<>> THEN None ELSE Some(attrs[Len(attrs)])

\* The parsed model is the model section m alone, each field with the value of
\* its last @serialize attribute.
ModelIs(model, m) ==
    /\ FieldsAgree(model.fields, m.fields)
    /\ \A i \in 1..Len(m.fields) :
          model.fields[i].attributes.serialize = LastSerialize(m.fields[i].attrs)

\* The parsed controller holds the contents of the last params section and of
\* the last respond_with section of c alone.
ControllerIs(controller, c) ==
    /\ IF HasSec(c.items, "params")
       THEN ProfilesNormalized(controller.params, LastSec(c.items, "params"))
       ELSE controller.params = <<>>
    /\ IF HasSec(c.items, "respond_with")
       THEN FormatsNormalized(controller.respond_with, LastSec(c.items, "respond_with"))
       ELSE controller.respond_with = <<>>

\* C12: repeated sections are resolved last-wins, never merged and never
\* rejected: a source text that matches the grammar parses, each Resource
\* holds its last model section and its last controller section only, a
\* controller the contents of its last params and last respond_with section
\* only, and a field the value of its last @serialize attribute.
C12_RepeatedSectionsLastWins ==
    (/\ ~IsPending(parsed)
     /\ unit.content.kind = "text"
     /\ ~SourceBad(unit.content))
        => /\ parsed.ok
           /\ Len(parsed.val) = Len(SrcResources)
           /\ \A r \in 1..Len(parsed.val) :
                 LET d == SrcResources[r]
                     res == parsed.val[r]
                 IN  /\ res.model.some = HasSec(d.items, "model")
                     /\ res.model.some => ModelIs(res.model.v, LastSec(d.items, "model"))
                     /\ res.controller.some = HasSec(d.items, "controller")
                     /\ res.controller.some =>
                           ControllerIs(res.controller.v, LastSec(d.items, "controller"))

\* C12 witness: a parsed resource with two different model sections holds the
\* fields of the second one.
C12_Witness ==
    /\ ParsedOk
    /\ Len(SrcResources) = 1
    /\ SrcResources[1].items = <<SampleModel, OtherModel>>
    /\ Len(parsed.val[1].model.v.fields) = 1
    /\ parsed.val[1].model.v.fields[1].name = <<"slug">>

(***************************************************************************)
(* The builders on pairs that a drifted grammar would yield: one leaf pair *)
(* of any rule tag at each position a builder dispatches on.               *)
(***************************************************************************)
Rules ==
    {"file", "resource", "ident", "model_section", "field_decl", "name_opt", "type_ref",
     "optional_mark", "field_attr", "serialize_attr", "bool_literal", "controller_section",
     "params_section", "params_profile", "param_entry_list", "param_entry",
     "respond_with_section", "format_list", "actions_section", "EOI"}

Positions ==
    {"top", "file_child", "resource_item", "model_item", "field_attr", "controller_item",
     "params_child", "profile_child", "respond_child", "type_mark", "name_mark"}

\* The rule tags the builder at a position expects (spec.md 4.1).
Expected(pos) ==
    CASE pos = "top" -> {"file"}
      [] pos = "file_child" -> {"resource", "EOI"}
      [] pos = "resource_item" -> {"model_section", "controller_section"}
      [] pos = "model_item" -> {"field_decl"}
      [] pos = "field_attr" -> {"field_attr", "serialize_attr"}
      [] pos = "controller_item" ->
            {"params_section", "respond_with_section", "actions_section"}
      [] pos = "params_child" -> {"params_profile"}
      [] pos = "profile_child" -> {"param_entry_list", "param_entry"}
      [] pos = "respond_child" -> {"format_list", "ident"}
      [] pos = "type_mark" -> {"optional_mark"}
      [] pos = "name_mark" -> {"optional_mark"}

Leaf(tag) == Pair(tag, <<"x">>, <<>>)

InFile(items) == <<Node("file", items \o <<Pair("EOI", <<>>, <<>>)>>)>>

InResource(sections) ==
    InFile(<<Node("resource", <<IdentPair("Article")>> \o sections)>>)

InModel(fields) == InResource(<<Node("model_section", fields)>>)

InController(items) == InResource(<<Node("controller_section", items)>>)

PlainName == NameOptPair([name |-> "title", mark |-> FALSE])

PlainType == Node("type_ref", <<IdentPair("String")>>)

DriftPairs(pos, tag) ==
    CASE pos = "top" -> <<Leaf(tag)>>
      [] pos = "file_child" -> InFile(<<Leaf(tag)>>)
      [] pos = "resource_item" -> InResource(<<Leaf(tag)>>)
      [] pos = "model_item" -> InModel(<<Leaf(tag)>>)
      [] pos = "field_attr" ->
            InModel(<<Node("field_decl", <<PlainName, PlainType, Leaf(tag)>>)>>)
      [] pos = "controller_item" -> InController(<<Leaf(tag)>>)
      [] pos = "params_child" -> InController(<<Node("params_section", <<Leaf(tag)>>)>>)
      [] pos = "profile_child" ->
            InController(<<Node("params_section",
                                <<Node("params_profile",
                                       <<IdentPair("editable"), Leaf(tag)>>)>>)>>)
      [] pos = "respond_child" ->
            InController(<<Node("respond_with_section", <<Leaf(tag)>>)>>)
      [] pos = "type_mark" ->
            InModel(<<Node("field_decl",
                           <<PlainName,
                             Node("type_ref", <<IdentPair("String"), Leaf(tag)>>)>>)>>)
      [] pos = "name_mark" ->
            InModel(<<Node("field_decl",
                           <<Node("name_opt", <<IdentPair("title"), Leaf(tag)>>),
                             PlainType>>)>>)

DriftContents ==
    {[kind |-> "pairs", pairs |-> DriftPairs(pos, tag), pos |-> pos, tag |-> tag] :
        pos \in Positions, tag \in Rules}

InitBuilders ==
    /\ unit \in {[path |-> AppPath \o <<p>>, content |-> c] :
                    p \in {1, 2},
                    c \in DriftContents
                          \cup {Unreadable, Text(<<Article>>),
                                Text(<<ResourceSrc("Comment", <<BrokenModel(1)>>)>>)}}
    /\ parsed = Pending
    /\ generated = Pending
    /\ PipelineIdle

SpecBuilders == InitBuilders /\ [][NextParse]_vars

\* C8: a pair whose rule tag the builder at its position does not expect makes
\* the parse fail; no builder returns a successful result over it.
C8_UnexpectedRuleFails ==
    (/\ ~IsPending(parsed)
     /\ unit.content.kind = "pairs"
     /\ unit.content.tag \notin Expected(unit.content.pos))
        => ~parsed.ok

\* C9: every error parse_file returns for a file (unreadable, grammar
\* mismatch, unsupported rule) carries the path of that file.
C9_ErrorsCarryPath ==
    (~IsPending(parsed) /\ ~parsed.ok) => parsed.err.path = unit.path

====
